---- MODULE Spec2Model ----
(***************************************************************************)
(* Model of mongoimport's TSV input reader (src/mongoimport/tsv.go):       *)
(* NewTSVInputReader, ReadAndValidateHeader, StreamDocument and            *)
(* TSVConverter.Convert.  StreamDocument starts a read-loop goroutine and  *)
(* a decode/merge goroutine and waits on a quorum of their two terminal    *)
(* signals.  streamDocuments, channelQuorumError, tokensToBSON and         *)
(* validateReaderFields live outside tsv.go; they are modelled from the    *)
(* design document (spec.md sections 4.2, 4.3, 4.4 and 8).                 *)
(*                                                                         *)
(* Strings are sequences of one-character strings, so that ReadString,     *)
(* Split and TrimRight are computed as the Go library computes them.       *)
(***************************************************************************)
EXTENDS Integers, Sequences, FiniteSets, TLC

(***************************************************************************)
(* Bounds of the model.                                                    *)
(***************************************************************************)
\* largest number of delimiter-terminated lines in a generated input
MaxRecords == 4
\* largest number of lines in the inputs of the termination check
MaxFairRecords == 3
\* largest decoder pool size (numDecoders ranges over 1..MaxDecoders)
MaxDecoders == 2

(***************************************************************************)
(* Program constants.                                                      *)
(***************************************************************************)
entryDelimiter == "\n"
tokenSeparator == "\t"
\* the cutset of strings.TrimRight(.., "\r\n")
TrimCutset == {"\r", "\n"}
\* a quorum one signal short of the two stages
QuorumOne == 2 - 1
\* the quorum StreamDocument waits for: channelQuorumError(tsvErrChan, 2)
Quorum == 2

(***************************************************************************)
(* Errors and terminal signals.                                            *)
(***************************************************************************)
\* outcomes of a read on the underlying reader: no error, io.EOF, other error
NoErr == "nil"
EOF == "EOF"
IOErr == "ERR"

\* a terminal signal on tsvErrChan: nil, or an error value
NilSignal == [kind |-> "nil", entry |-> 0]
\* the error of a failed conversion of the record with index n
ConversionErrorSignal(n) == [kind |-> "conversion", entry |-> n]
\* fmt.Errorf("read error on entry #%v: %v", numProcessed, err)
ReadErrorSignal(n) == [kind |-> "read", entry |-> n]

(***************************************************************************)
(* String helpers: bufio.Reader.ReadString, strings.Split,                 *)
(* strings.TrimRight.                                                      *)
(***************************************************************************)
MaxOf(S) == CHOOSE x \in S : \A y \in S : y <= x
MinOf(S) == CHOOSE x \in S : \A y \in S : x <= y

\* positions >= p of s that hold the delimiter
DelimsFrom(s, p, delim) == {i \in p..Len(s) : s[i] = delim}

\* a ReadString that hands out unterminated trailing bytes as a record
ReadStringLenient(s, p, end, delim) ==
    IF DelimsFrom(s, p, delim) # {}
    THEN LET q == MinOf(DelimsFrom(s, p, delim))
         IN  [data |-> SubSeq(s, p, q), pos |-> q + 1, err |-> NoErr]
    ELSE [data |-> SubSeq(s, p, Len(s)), pos |-> Len(s) + 1,
          err |-> IF p <= Len(s) THEN NoErr ELSE end]

\* ReadString(delim) on a reader whose unread input is s[p..] and whose
\* underlying stream ends with `end` (io.EOF or another error): the bytes up
\* to and including the first delimiter and a nil error; if the stream ends
\* first, the bytes read so far and the stream's error.
ReadString(s, p, end, delim) ==
    IF DelimsFrom(s, p, delim) # {}
    THEN LET q == MinOf(DelimsFrom(s, p, delim))
         IN  [data |-> SubSeq(s, p, q), pos |-> q + 1, err |-> NoErr]
    ELSE [data |-> SubSeq(s, p, Len(s)), pos |-> Len(s) + 1, err |-> end]

\* strings.Split(s, sep) for a one-character separator
RECURSIVE Split(_, _)
Split(s, sep) ==
    IF DelimsFrom(s, 1, sep) = {}
    THEN <<s>>
    ELSE LET i == MinOf(DelimsFrom(s, 1, sep))
         IN  <<SubSeq(s, 1, i - 1)>> \o Split(SubSeq(s, i + 1, Len(s)), sep)

\* strings.TrimRight(s, cutset)
TrimRight(s, cutset) ==
    LET keep == {i \in 1..Len(s) : s[i] \notin cutset}
    IN  IF keep = {} THEN <<>> ELSE SubSeq(s, 1, MaxOf(keep))

(***************************************************************************)
(* Inputs.                                                                 *)
(***************************************************************************)
\* a record with two tokens, a record with one token, an unterminated tail
GoodLine == <<"1", "\t", "2", "\n">>
ShortLine == <<"5", "\n">>
PartialTail == <<"7">>
\* the stream "a\tb\n1\t2\n3\t4\n"
ScenarioStream ==
    <<"a", "\t", "b", "\n", "1", "\t", "2", "\n", "3", "\t", "4", "\n">>
\* the field names ["a", "b"]
ScenarioFields == << <<"a">>, <<"b">> >>

\* the field lists a reader is built with: none (header line expected), a, b
FieldChoices == {<<>>, ScenarioFields}

\* r lines, all GoodLine except line number `bad` (bad = 0: none is short)
RECURSIVE LinesStream(_, _)
LinesStream(r, bad) ==
    IF r = 0 THEN <<>>
    ELSE LinesStream(r - 1, bad) \o (IF r = bad THEN ShortLine ELSE GoodLine)

GeneratedStreams ==
    UNION {{LinesStream(r, bad) \o tail :
               bad \in 0..r, tail \in {<<>>, PartialTail}} : r \in 0..MaxRecords}

InputStreams == GeneratedStreams \cup {ScenarioStream}

VARIABLES
    stream,         \* the bytes the underlying io.Reader supplies
    streamEnd,      \* what the io.Reader returns after them: EOF or IOErr
    pos,            \* tsvReader: index of the next unread byte
    headerLine,     \* whether the caller reads a header line first
    ordered,        \* StreamDocument's argument
    fields,         \* tsvInputReader.fields
    numDecoders,    \* tsvInputReader.numDecoders
    tsvRecord,      \* tsvInputReader.tsvRecord
    numProcessed,   \* tsvInputReader.numProcessed
    callerPc,       \* "init", "streaming", "returned", "aborted"
    readerPc,       \* read loop: "off", "read", "send", "signal", "done"
    readerSignal,   \* the terminal signal the read loop is about to send
    tsvRecordChan,  \* buffered channel of converters (capacity numDecoders)
    chanClosed,     \* number of close(tsvRecordChan) calls
    workers,        \* decode workers: [st, rec]
    produced,       \* history: number of outcomes produced per index
    cursor,         \* merger: next expected index (ordered mode)
    buffer,         \* merger: outcomes held back (ordered mode)
    readDocChan,    \* history: outcomes emitted on the output stream
    emittedAfter,   \* history: emissions made after StreamDocument returned
    stagePc,        \* decode/merge stage: "off", "running", "signal", "done"
    received,       \* quorum: number of signals received
    retLog,         \* history: the results StreamDocument returned
    fatal,          \* decode policy: a conversion error ends the stage
    stageSignal,    \* the terminal signal of the decode/merge stage
    sigLog,         \* history: the signals received on tsvErrChan, in order
    enqueued,       \* history: the converters sent on tsvRecordChan, in order
    sizeTracked,    \* szCount: the bytes the size tracker has counted
    writesAfter     \* history: read-loop writes made after the return

vars == <<stream, streamEnd, pos, headerLine, ordered, fields, numDecoders,
          tsvRecord, numProcessed, callerPc, readerPc, readerSignal,
          tsvRecordChan, chanClosed, workers, produced, cursor, buffer,
          readDocChan, emittedAfter, stagePc, received, retLog, fatal,
          stageSignal, sigLog, enqueued, sizeTracked, writesAfter>>

inputVars == <<stream, streamEnd, headerLine, ordered, numDecoders, fatal>>

(***************************************************************************)
(* Conversion of one record.                                               *)
(***************************************************************************)
NoConverter == [fields |-> <<>>, data |-> <<>>, index |-> 0]

\* tokensToBSON(fields, tokens, index): binds token i to field i; a record
\* whose token count differs from the field count is a conversion error
\* carried in the outcome.
tokensToBSON(fs, tokens, index) ==
    IF Len(tokens) # Len(fs)
    THEN [index |-> index, doc |-> <<>>, err |-> "conversion"]
    ELSE [index |-> index,
          doc |-> [i \in 1..Len(fs) |-> <<fs[i], tokens[i]>>],
          err |-> "nil"]

\* a Convert that leaves the line ending on the last token
ConvertUntrimmed(t) ==
    tokensToBSON(t.fields, Split(t.data, tokenSeparator), t.index)

\* a Convert that hands the whole trimmed line over as one token
ConvertUnsplit(t) ==
    tokensToBSON(t.fields, <<TrimRight(t.data, TrimCutset)>>, t.index)

\* TSVConverter.Convert
Convert(t) ==
    tokensToBSON(t.fields,
                 Split(TrimRight(t.data, TrimCutset), tokenSeparator),
                 t.index)

\* validateReaderFields: the field list is non-empty, without empty or
\* duplicate names
validateReaderFields(fs) ==
    /\ Len(fs) > 0
    /\ \A i \in 1..Len(fs) : fs[i] # <<>>
    /\ \A i, j \in 1..Len(fs) : fs[i] = fs[j] => i = j

\* the fields ReadAndValidateHeader appends for a header line
HeaderFields(header) ==
    LET toks == Split(header, tokenSeparator)
    IN  [i \in 1..Len(toks) |-> TrimRight(toks[i], TrimCutset)]

(***************************************************************************)
(* NewTSVInputReader: szCount wraps `in`, tsvReader is built over `in`.    *)
(***************************************************************************)
\* what tsvReader reads from: bufio.NewReader(in)
ReaderSource == "in"

\* the bytes szCount counts when tsvReader consumes n bytes: szCount sees
\* only the reads made through it
TrackedBytes(n) == IF ReaderSource = "szCount" THEN n ELSE 0

(***************************************************************************)
(* Pieces of the read loop of StreamDocument.                              *)
(***************************************************************************)
\* a queue with one slot more than there are decoders
QueueCapPlusOne(n) == n + 1

\* make(chan Converter, tsvInputReader.numDecoders)
QueueCap(n) == n

\* the test inverted: err != io.EOF
IsEOFInverted(err) == err # EOF

\* err == io.EOF
IsEOF(err) == err = EOF

\* an index that is not taken from numProcessed
RecordIndexZero(n) == 0

\* an index taken after the increment of numProcessed
RecordIndexAfterIncrement(n) == n + 1

\* the index given to the converter built for a record: numProcessed
RecordIndex(n) == n

\* a read error that names numProcessed without the increment
ReadLoopSignalNoIncrement(err, n) ==
    IF IsEOF(err) THEN NilSignal ELSE ReadErrorSignal(n)

\* the terminal signal of the read loop for a failed read, n = numProcessed
\* before the read: nil on io.EOF, else numProcessed++ and the read error
ReadLoopSignal(err, n) ==
    IF IsEOF(err) THEN NilSignal ELSE ReadErrorSignal(n + 1)

\* numProcessed after a failed read
NumProcessedOnError(err, n) == IF IsEOF(err) THEN n ELSE n + 1

\* a read loop that lacks the return and goes on to send after a failed read
ReadLoopAfterErrorFallsThrough(err) == "send"

\* a read loop that returns on io.EOF without sending its signal
ReadLoopAfterErrorSilentEOF(err) == IF err = EOF THEN "done" ELSE "signal"

\* where the read loop goes after a failed read: it sends its signal
ReadLoopAfterError(err) == "signal"

(***************************************************************************)
(* Pieces of the merger and of the quorum.                                 *)
(***************************************************************************)
\* the buffered outcomes contiguous with cursor c, in index order
RECURSIVE FlushRun(_, _)
FlushRun(c, buf) ==
    IF \E o \in buf : o.index = c
    THEN <<CHOOSE o \in buf : o.index = c>> \o FlushRun(c + 1, buf)
    ELSE <<>>

SeqRange(q) == {q[i] : i \in 1..Len(q)}

\* what the merger emits on receiving outcome `out`
MergerEmits(ord, c, buf, out) ==
    IF ~ord THEN <<out>>
    ELSE IF out.index = c THEN <<out>> \o FlushRun(c + 1, buf)
    ELSE <<>>

\* the merger's buffer after receiving outcome `out`
MergerBuffer(ord, c, buf, out) ==
    IF ~ord THEN buf
    ELSE IF out.index = c THEN buf \ SeqRange(FlushRun(c + 1, buf))
    ELSE buf \cup {out}

\* channelQuorumError: whether the signal received as number n + 1 resolves
\* the quorum (resolved = a result was already fixed): the first non-nil
\* signal does, and so does the last expected signal when all were nil
QuorumResolves(sig, n, resolved) ==
    /\ ~resolved
    /\ \/ sig.kind # "nil"
       \/ n + 1 = Quorum

(***************************************************************************)
(* Initial state: a reader built by NewTSVInputReader.                     *)
(***************************************************************************)
InitPolicy(policy) ==
    /\ fatal = policy
    /\ stageSignal = NilSignal
    /\ sigLog = <<>>
    /\ enqueued = <<>>
    /\ sizeTracked = 0
    /\ writesAfter = 0
    /\ stream \in InputStreams
    /\ streamEnd \in {EOF, IOErr}
    /\ pos = 1
    /\ headerLine \in BOOLEAN
    /\ ordered \in BOOLEAN
    /\ fields \in FieldChoices
    /\ numDecoders \in 1..MaxDecoders
    /\ tsvRecord = <<>>
    /\ numProcessed = 0
    /\ callerPc = "init"
    /\ readerPc = "off"
    /\ readerSignal = NilSignal
    /\ tsvRecordChan = <<>>
    /\ chanClosed = 0
    /\ workers = [w \in 1..numDecoders |-> [st |-> "off", rec |-> NoConverter]]
    /\ produced = [i \in 0..(MaxRecords + 1) |-> 0]
    /\ cursor = 0
    /\ buffer = {}
    /\ readDocChan = <<>>
    /\ emittedAfter = 0
    /\ stagePc = "off"
    /\ received = 0
    /\ retLog = <<>>

\* the reader under the non-fatal decode policy
Init == InitPolicy(FALSE)

(***************************************************************************)
(* The caller.                                                             *)
(***************************************************************************)
\* ReadAndValidateHeader, called first when the input has a header line
ReadAndValidateHeader ==
    /\ callerPc = "init"
    /\ headerLine
    /\ LET r == ReadString(stream, pos, streamEnd, entryDelimiter)
       IN  /\ pos' = r.pos
           /\ IF r.err # NoErr
              THEN /\ fields' = fields
                   /\ callerPc' = "aborted"
              ELSE /\ fields' = fields \o HeaderFields(r.data)
                   /\ callerPc' = IF validateReaderFields(fields')
                                  THEN "ready" ELSE "aborted"
           /\ sizeTracked' = sizeTracked + TrackedBytes(r.pos - pos)
    /\ UNCHANGED <<inputVars, tsvRecord, numProcessed, readerPc, readerSignal,
                   tsvRecordChan, chanClosed, workers, produced, cursor,
                   buffer, readDocChan, emittedAfter, stagePc, received,
                   retLog, stageSignal, sigLog, enqueued, writesAfter>>

\* StreamDocument up to its call of channelQuorumError: makes the channels
\* and starts the read loop and the decode/merge stage
StreamDocument ==
    /\ \/ callerPc = "init" /\ ~headerLine
       \/ callerPc = "ready"
    /\ callerPc' = "streaming"
    /\ readerPc' = "read"
    /\ stagePc' = "running"
    /\ workers' = [w \in 1..numDecoders |-> [st |-> "idle", rec |-> NoConverter]]
    /\ UNCHANGED <<inputVars, pos, fields, tsvRecord, numProcessed,
                   readerSignal, tsvRecordChan, chanClosed, produced, cursor,
                   buffer, readDocChan, emittedAfter, received, retLog,
                   stageSignal, sigLog, enqueued, sizeTracked, writesAfter>>

(***************************************************************************)
(* The quorum: one receive on tsvErrChan.                                  *)
(***************************************************************************)
QuorumReceive(from, sig) ==
    /\ received < Quorum
    /\ received' = received + 1
    /\ sigLog' = Append(sigLog, [from |-> from, sig |-> sig])
    /\ IF QuorumResolves(sig, received, retLog # <<>>)
       THEN /\ retLog' = Append(retLog, sig)
            /\ callerPc' = "returned"
       ELSE UNCHANGED <<retLog, callerPc>>

(***************************************************************************)
(* The read loop.                                                          *)
(***************************************************************************)
\* one ReadString; on an error the queue is closed and the signal prepared
ReadLoopRead ==
    /\ readerPc = "read"
    /\ LET r == ReadString(stream, pos, streamEnd, entryDelimiter)
       IN  /\ pos' = r.pos
           /\ tsvRecord' = r.data
           /\ IF r.err # NoErr
              THEN /\ chanClosed' = chanClosed + 1
                   /\ readerSignal' = ReadLoopSignal(r.err, numProcessed)
                   /\ numProcessed' = NumProcessedOnError(r.err, numProcessed)
                   /\ readerPc' = ReadLoopAfterError(r.err)
              ELSE /\ readerPc' = "send"
                   /\ UNCHANGED <<chanClosed, readerSignal, numProcessed>>
           /\ sizeTracked' = sizeTracked + TrackedBytes(r.pos - pos)
    /\ writesAfter' = IF callerPc = "returned"
                      THEN writesAfter + 1 ELSE writesAfter
    /\ UNCHANGED <<inputVars, fields, callerPc, tsvRecordChan, workers,
                   produced, cursor, buffer, readDocChan, emittedAfter,
                   stagePc, received, retLog, stageSignal, sigLog, enqueued>>

\* tsvRecordChan <- TSVConverter{...}; numProcessed++
ReadLoopSend ==
    /\ readerPc = "send"
    /\ Len(tsvRecordChan) < QueueCap(numDecoders)
    /\ LET t == [fields |-> fields, data |-> tsvRecord,
                 index |-> RecordIndex(numProcessed)]
       IN  /\ tsvRecordChan' = Append(tsvRecordChan, t)
           /\ enqueued' = Append(enqueued, t)
    /\ numProcessed' = numProcessed + 1
    /\ writesAfter' = IF callerPc = "returned"
                      THEN writesAfter + 1 ELSE writesAfter
    /\ readerPc' = "read"
    /\ UNCHANGED <<inputVars, pos, fields, tsvRecord, callerPc, readerSignal,
                   chanClosed, workers, produced, cursor, buffer, readDocChan,
                   emittedAfter, stagePc, received, retLog, stageSignal,
                   sigLog, sizeTracked>>

\* tsvErrChan <- nil, or tsvErrChan <- the read error
ReadLoopSignals ==
    /\ readerPc = "signal"
    /\ QuorumReceive("read", readerSignal)
    /\ readerPc' = "done"
    /\ UNCHANGED <<inputVars, pos, fields, tsvRecord, numProcessed,
                   readerSignal, tsvRecordChan, chanClosed, workers, produced,
                   cursor, buffer, readDocChan, emittedAfter, stagePc,
                   stageSignal, enqueued, sizeTracked, writesAfter>>

(***************************************************************************)
(* The decode/merge stage: streamDocuments.                                *)
(***************************************************************************)
\* a worker dequeues a record
WorkerDequeue(w) ==
    /\ stagePc = "running"
    /\ workers[w].st = "idle"
    /\ tsvRecordChan # <<>>
    /\ workers' = [workers EXCEPT ![w] = [st |-> "busy", rec |-> Head(tsvRecordChan)]]
    /\ tsvRecordChan' = Tail(tsvRecordChan)
    /\ UNCHANGED <<inputVars, pos, fields, tsvRecord, numProcessed, callerPc,
                   readerPc, readerSignal, chanClosed, produced, cursor,
                   buffer, readDocChan, emittedAfter, stagePc, received,
                   retLog, stageSignal, sigLog, enqueued, sizeTracked,
                   writesAfter>>

\* a worker converts its record and hands the outcome to the merger, which
\* emits or buffers it
WorkerFinish(w) ==
    /\ stagePc \in {"running", "failing"}
    /\ workers[w].st = "busy"
    /\ ~(fatal /\ Convert(workers[w].rec).err # "nil")
    /\ LET out == Convert(workers[w].rec)
           emits == MergerEmits(ordered, cursor, buffer, out)
       IN  /\ produced' = [produced EXCEPT ![out.index] = @ + 1]
           /\ readDocChan' = readDocChan \o emits
           /\ buffer' = MergerBuffer(ordered, cursor, buffer, out)
           /\ cursor' = IF ordered THEN cursor + Len(emits) ELSE cursor
           /\ emittedAfter' = IF callerPc = "returned"
                              THEN emittedAfter + Len(emits) ELSE emittedAfter
    /\ workers' = [workers EXCEPT ![w] = [st |-> "idle", rec |-> NoConverter]]
    /\ UNCHANGED <<inputVars, pos, fields, tsvRecord, numProcessed, callerPc,
                   readerPc, readerSignal, tsvRecordChan, chanClosed, stagePc,
                   received, retLog, stageSignal, sigLog, enqueued,
                   sizeTracked, writesAfter>>

\* a worker finds the queue closed and empty and exits
WorkerExit(w) ==
    /\ stagePc = "running"
    /\ workers[w].st = "idle"
    /\ tsvRecordChan = <<>>
    /\ chanClosed > 0
    /\ workers' = [workers EXCEPT ![w] = [st |-> "done", rec |-> NoConverter]]
    /\ UNCHANGED <<inputVars, pos, fields, tsvRecord, numProcessed, callerPc,
                   readerPc, readerSignal, tsvRecordChan, chanClosed, produced,
                   cursor, buffer, readDocChan, emittedAfter, stagePc,
                   received, retLog, stageSignal, sigLog, enqueued,
                   sizeTracked, writesAfter>>

\* every worker has exited: tsvErrChan <- streamDocuments(...)
StageSignals ==
    /\ stagePc = "running"
    /\ \A w \in 1..numDecoders : workers[w].st = "done"
    /\ QuorumReceive("decode", stageSignal)
    /\ stagePc' = "done"
    /\ UNCHANGED <<inputVars, pos, fields, tsvRecord, numProcessed, readerPc,
                   readerSignal, tsvRecordChan, chanClosed, workers, produced,
                   cursor, buffer, readDocChan, emittedAfter, stageSignal,
                   enqueued, sizeTracked, writesAfter>>

\* fatal decode policy: a worker's conversion fails; the worker stops, no
\* worker takes another record, and the first such error becomes the
\* stage's terminal signal
WorkerFails(w) ==
    /\ stagePc \in {"running", "failing"}
    /\ workers[w].st = "busy"
    /\ fatal
    /\ Convert(workers[w].rec).err # "nil"
    /\ workers' = [workers EXCEPT ![w] = [st |-> "done", rec |-> NoConverter]]
    /\ stagePc' = "failing"
    /\ stageSignal' = IF stagePc = "running"
                      THEN ConversionErrorSignal(workers[w].rec.index)
                      ELSE stageSignal
    /\ UNCHANGED <<inputVars, pos, fields, tsvRecord, numProcessed, callerPc,
                   readerPc, readerSignal, tsvRecordChan, chanClosed, produced,
                   cursor, buffer, readDocChan, emittedAfter, received,
                   retLog, sigLog, enqueued, sizeTracked, writesAfter>>

\* fatal decode policy: the conversions in progress have ended and the
\* stage sends its error: tsvErrChan <- streamDocuments(...)
StageSignalsError ==
    /\ stagePc = "failing"
    /\ \A w \in 1..numDecoders : workers[w].st # "busy"
    /\ QuorumReceive("decode", stageSignal)
    /\ stagePc' = "done"
    /\ UNCHANGED <<inputVars, pos, fields, tsvRecord, numProcessed, readerPc,
                   readerSignal, tsvRecordChan, chanClosed, workers, produced,
                   cursor, buffer, readDocChan, emittedAfter, stageSignal,
                   enqueued, sizeTracked, writesAfter>>

Next ==
    \/ ReadAndValidateHeader
    \/ StreamDocument
    \/ ReadLoopRead
    \/ ReadLoopSend
    \/ ReadLoopSignals
    \/ \E w \in 1..numDecoders : WorkerDequeue(w)
    \/ \E w \in 1..numDecoders : WorkerFinish(w)
    \/ \E w \in 1..numDecoders : WorkerExit(w)
    \/ StageSignals

Spec == Init /\ [][Next]_vars

\* The reader under the fatal decode policy, with the field names either
\* given to the constructor or read from the header line.
InitFatal ==
    /\ InitPolicy(TRUE)
    /\ headerLine <=> fields = <<>>

NextFatal ==
    \/ Next
    \/ \E w \in 1..numDecoders : WorkerFails(w)
    \/ StageSignalsError

SpecFatal == InitFatal /\ [][NextFatal]_vars

\* The runs checked for termination: every record count up to
\* MaxFairRecords, ending, tail, pool
\* size and mode, with records that all convert and the field names either
\* given to the constructor or read from the header line.
FairInit ==
    /\ Init
    /\ stream \in {LinesStream(r, 0) \o tail :
                      r \in 0..MaxFairRecords, tail \in {<<>>, PartialTail}}
    /\ headerLine <=> fields = <<>>

\* every goroutine that can take a step eventually takes one
FairSpec == FairInit /\ [][Next]_vars /\ WF_vars(Next)

(***************************************************************************)
(* Quantities the properties are stated in.                                *)
(***************************************************************************)
\* where StreamDocument starts reading: after the header line, if one is read
BodyStart ==
    IF headerLine THEN ReadString(stream, 1, streamEnd, entryDelimiter).pos
    ELSE 1

\* the delimiter-terminated records from position p on
RECURSIVE RecordsFrom(_, _)
RecordsFrom(s, p) ==
    IF DelimsFrom(s, p, entryDelimiter) = {}
    THEN <<>>
    ELSE LET q == MinOf(DelimsFrom(s, p, entryDelimiter))
         IN  <<SubSeq(s, p, q)>> \o RecordsFrom(s, q + 1)

\* the records StreamDocument is given, and their number R
BodyRecords == RecordsFrom(stream, BodyStart)
NumRecords == Len(BodyRecords)

\* whether a record has as many tokens as there are fields
TokenCount(line) == Cardinality(DelimsFrom(line, 1, tokenSeparator)) + 1
ExpectError(line) == TokenCount(line) # Len(fields)
AllRecordsConvert == \A i \in 1..NumRecords : ~ExpectError(BodyRecords[i])

\* the positions of the output stream that carry index i
EmittedAt(i) == {j \in 1..Len(readDocChan) : readDocChan[j].index = i}

\* the documents of the output stream, in order
EmittedDocs == [j \in 1..Len(readDocChan) |-> readDocChan[j].doc]

\* the documents of the scenario
DocAB == << <<(<<"a">>), (<<"a">>)>>, <<(<<"b">>), (<<"b">>)>> >>
Doc12 == << <<(<<"a">>), (<<"1">>)>>, <<(<<"b">>), (<<"2">>)>> >>
Doc34 == << <<(<<"a">>), (<<"3">>)>>, <<(<<"b">>), (<<"4">>)>> >>

(***************************************************************************)
(* C1.  For every input, pool size and mode, a started StreamDocument      *)
(* eventually returns, and it returns exactly one result: never a second   *)
(* one, and the caller is never left waiting on the quorum.                *)
(***************************************************************************)
C1_ReturnsExactlyOnce ==
    /\ (callerPc = "streaming") ~> (callerPc = "returned")
    /\ [](Len(retLog) <= 1)
    /\ [](callerPc = "returned" <=> Len(retLog) = 1)

C1_Witness ==
    /\ callerPc = "returned"
    /\ Len(retLog) = 1
    /\ streamEnd = IOErr
    /\ NumRecords = MaxFairRecords
    /\ numDecoders = MaxDecoders

(***************************************************************************)
(* C2.  For an input of R records read without failure, every index has at *)
(* most one outcome at any time, none beyond R - 1, and when the decode    *)
(* stage has finished the read loop has enqueued R records and each index  *)
(* 0..R-1 has exactly one outcome, failed conversions included.            *)
(***************************************************************************)
C2_OneOutcomePerRecord ==
    streamEnd = EOF =>
        /\ \A i \in DOMAIN produced :
              /\ produced[i] <= 1
              /\ i >= NumRecords => produced[i] = 0
        /\ stagePc = "done" =>
              /\ numProcessed = NumRecords
              /\ \A i \in 0..(NumRecords - 1) : produced[i] = 1

C2_Witness ==
    /\ streamEnd = EOF
    /\ stagePc = "done"
    /\ NumRecords = MaxRecords
    /\ numDecoders = MaxDecoders
    /\ \E j \in 1..Len(readDocChan) : readDocChan[j].err # "nil"
    /\ \A i \in 0..(NumRecords - 1) : produced[i] = 1

(***************************************************************************)
(* C3.  In ordered mode the output stream always carries the indices       *)
(* 0, 1, 2, ... in that order without gap or duplicate, and when the       *)
(* decode stage has finished it carries exactly 0..R-1.                    *)
(***************************************************************************)
C3_OrderedEmission ==
    ordered =>
        /\ \A j \in 1..Len(readDocChan) : readDocChan[j].index = j - 1
        /\ stagePc = "done" => Len(readDocChan) = NumRecords

\* index 0 emitted while two later outcomes wait behind a slow worker
C3_Witness ==
    /\ ordered
    /\ Len(readDocChan) >= 1
    /\ Cardinality(buffer) >= 2
    /\ \E w \in 1..numDecoders :
          workers[w].st = "busy" /\ workers[w].rec.index = cursor

(***************************************************************************)
(* C4.  In unordered mode no index is ever emitted twice, and when the run *)
(* has finished the emitted indices are exactly 0..R-1, once each.         *)
(***************************************************************************)
C4_UnorderedEmission ==
    ~ordered =>
        /\ \A i \in 0..(MaxRecords + 1) : Cardinality(EmittedAt(i)) <= 1
        /\ stagePc = "done" =>
              /\ Len(readDocChan) = NumRecords
              /\ \A i \in 0..(NumRecords - 1) : Cardinality(EmittedAt(i)) = 1

\* a finished unordered run whose output is not in index order
C4_Witness ==
    /\ ~ordered
    /\ stagePc = "done"
    /\ Len(readDocChan) = MaxRecords
    /\ \E j \in 1..(Len(readDocChan) - 1) :
          readDocChan[j].index > readDocChan[j + 1].index

(***************************************************************************)
(* C5.  When the underlying reader fails with a non-EOF error after k      *)
(* records, the read loop's signal and the result StreamDocument returns   *)
(* are the read error naming entry k + 1.                                  *)
(***************************************************************************)
C5_ReadErrorNamesEntry ==
    streamEnd = IOErr =>
        /\ readerPc \in {"signal", "done"} =>
              readerSignal = ReadErrorSignal(NumRecords + 1)
        /\ callerPc = "returned" =>
              retLog = <<ReadErrorSignal(NumRecords + 1)>>

\* the read error returned while records are still queued or being converted
C5_Witness ==
    /\ streamEnd = IOErr
    /\ callerPc = "returned"
    /\ NumRecords >= 2
    /\ retLog = <<ReadErrorSignal(NumRecords + 1)>>
    /\ tsvRecordChan # <<>>
    /\ \E w \in 1..numDecoders : workers[w].st = "busy"

(***************************************************************************)
(* C6.  When the input ends with clean end-of-input and every record       *)
(* converts, the result returned is nil and every worker has exited, also  *)
(* the workers that never received a record (N > R, R = 0).                *)
(***************************************************************************)
C6_CleanRunReturnsNil ==
    (callerPc = "returned" /\ streamEnd = EOF /\ AllRecordsConvert) =>
        /\ retLog = <<NilSignal>>
        /\ \A w \in 1..numDecoders : workers[w].st = "done"

\* two workers, one record: one worker never received anything
C6_Witness ==
    /\ callerPc = "returned"
    /\ streamEnd = EOF
    /\ AllRecordsConvert
    /\ NumRecords = 1
    /\ numDecoders = MaxDecoders
    /\ retLog = <<NilSignal>>
    /\ Len(readDocChan) = 1

(***************************************************************************)
(* C7.  Once StreamDocument has returned, nothing more is emitted on the   *)
(* output stream.                                                          *)
(***************************************************************************)
C7_NoEmissionAfterReturn == emittedAfter = 0

(***************************************************************************)
(* C8.  In ordered mode the merger's reordering buffer never holds more    *)
(* than N = numDecoders entries.                                           *)
(***************************************************************************)
C8_BufferAtMostN == ordered => Cardinality(buffer) <= numDecoders

(***************************************************************************)
(* C9.  The scenario "a\tb\n1\t2\n3\t4\n", field names a, b, two decoders, *)
(* ordered.  As claimed: the output is the two documents {a:1,b:2},        *)
(* {a:3,b:4} and the result is nil.                                        *)
(***************************************************************************)
ScenarioRun ==
    /\ stream = ScenarioStream
    /\ streamEnd = EOF
    /\ fields = ScenarioFields
    /\ numDecoders = 2
    /\ ordered
    /\ callerPc = "returned"

C9_ScenarioTwoDocuments ==
    ScenarioRun => (EmittedDocs = <<Doc12, Doc34>> /\ retLog = <<NilSignal>>)

(***************************************************************************)
(* C9, amended.  The output is those two documents when the field names    *)
(* come from ReadAndValidateHeader consuming the line "a\tb"; when the     *)
(* reader is built with the field names and StreamDocument reads the whole *)
(* stream, the line "a\tb" is emitted first, as the document {a:a,b:b}.    *)
(* The result is nil in both cases.                                        *)
(***************************************************************************)
C9_ScenarioHeaderConsumed ==
    ScenarioRun =>
        /\ retLog = <<NilSignal>>
        /\ headerLine => EmittedDocs = <<Doc12, Doc34>>
        /\ ~headerLine => EmittedDocs = <<DocAB, Doc12, Doc34>>

C9_Witness ==
    /\ ScenarioRun
    /\ headerLine
    /\ EmittedDocs = <<Doc12, Doc34>>

(***************************************************************************)
(* C10.  A conversion error is carried in its record's outcome and stops   *)
(* nothing: when the decode stage has finished, every record has exactly   *)
(* one emitted outcome, failed exactly when its token count mismatches the *)
(* fields, and a run on a clean input returns nil.                         *)
(***************************************************************************)
C10_ConversionErrorNotFatal ==
    /\ stagePc = "done" =>
          /\ Len(readDocChan) = NumRecords
          /\ \A i \in 1..NumRecords :
                /\ Cardinality(EmittedAt(i - 1)) = 1
                /\ \A j \in EmittedAt(i - 1) :
                      (readDocChan[j].err # "nil") <=> ExpectError(BodyRecords[i])
    /\ (callerPc = "returned" /\ streamEnd = EOF) => retLog = <<NilSignal>>

\* one worker: record 0 failed, the same worker went on to convert record 1
C10_Witness ==
    /\ stagePc = "done"
    /\ callerPc = "returned"
    /\ streamEnd = EOF
    /\ numDecoders = 1
    /\ retLog = <<NilSignal>>
    /\ Len(readDocChan) >= 3
    /\ readDocChan[1].err # "nil"
    /\ readDocChan[2].err = "nil"
    /\ readDocChan[3].err = "nil"

(***************************************************************************)
(* Quantities of the second group of properties.                           *)
(***************************************************************************)
\* the positions of sigLog that hold an error
NonNilAt == {i \in 1..Len(sigLog) : sigLog[i].sig.kind # "nil"}

\* the positions of sigLog that hold the signal of stage st
SignalsOf(st) == {i \in 1..Len(sigLog) : sigLog[i].from = st}

\* both stages have signalled, and both signalled nil
BothNil ==
    \A st \in {"read", "decode"} :
        \E i \in SignalsOf(st) : sigLog[i].sig = NilSignal

(***************************************************************************)
(* C11.  The quorum's result is nil exactly when both stage signals were   *)
(* received and both are nil; otherwise it is the first error received,    *)
(* and a later signal (nil or a second error) leaves it in place.          *)
(***************************************************************************)
C11_QuorumFirstError ==
    /\ Len(retLog) <= 1
    /\ retLog = <<>> => (NonNilAt = {} /\ ~BothNil)
    /\ retLog # <<>> =>
          /\ retLog[1] = NilSignal <=> BothNil
          /\ NonNilAt # {} => retLog[1] = sigLog[MinOf(NonNilAt)].sig

\* the decode error came first, the read error second: the first stands
C11_Witness ==
    /\ Len(sigLog) = 2
    /\ sigLog[1].from = "decode"
    /\ sigLog[1].sig.kind = "conversion"
    /\ sigLog[2].sig.kind = "read"
    /\ retLog = <<sigLog[1].sig>>

(***************************************************************************)
(* C12.  Each stage delivers exactly one terminal signal and no stage      *)
(* goroutine is left blocked: the read loop is never waiting on a full     *)
(* raw-record queue that no worker will read again, and no stage is        *)
(* waiting to send a signal that the quorum will not receive.              *)
(***************************************************************************)
C12_NoStageBlockedForever ==
    /\ \A st \in {"read", "decode"} : Cardinality(SignalsOf(st)) <= 1
    /\ ~(/\ readerPc = "send"
         /\ Len(tsvRecordChan) >= QueueCap(numDecoders)
         /\ stagePc \in {"failing", "done"})
    /\ ~(readerPc = "signal" /\ received >= Quorum)
    /\ ~(stagePc = "failing" /\ received >= Quorum)

(***************************************************************************)
(* C13.  The converters the read loop sends on the raw-record queue carry  *)
(* the indices 0, 1, 2, ... in the order they are sent: the i-th carries   *)
(* i - 1.                                                                  *)
(***************************************************************************)
C13_IndicesInEnqueueOrder ==
    \A i \in 1..Len(enqueued) : enqueued[i].index = i - 1

C13_Witness ==
    /\ Len(enqueued) = MaxRecords
    /\ enqueued[MaxRecords].index = MaxRecords - 1

(***************************************************************************)
(* C14.  After a read error has closed the raw-record queue with k records *)
(* sent, no worker exits while a record is queued, every one of the k      *)
(* records has its outcome once the workers have exited, and no outcome    *)
(* has an index >= k.                                                      *)
(***************************************************************************)
C14_ClosedQueueIsDrained ==
    (streamEnd = IOErr /\ chanClosed >= 1) =>
        /\ \A i \in DOMAIN produced : i >= Len(enqueued) => produced[i] = 0
        /\ \A w \in 1..numDecoders :
              workers[w].st = "done" => tsvRecordChan = <<>>
        /\ (\A w \in 1..numDecoders : workers[w].st = "done") =>
              \A i \in 0..(Len(enqueued) - 1) : produced[i] = 1

\* the read error was returned, and the workers still converted every record
C14_Witness ==
    /\ streamEnd = IOErr
    /\ chanClosed = 1
    /\ retLog # <<>>
    /\ emittedAfter >= 2
    /\ Len(enqueued) = MaxRecords
    /\ \A w \in 1..numDecoders : workers[w].st = "done"
    /\ \A i \in 0..(Len(enqueued) - 1) : produced[i] = 1

(***************************************************************************)
(* C15.  As claimed: the raw-record queue never holds more than N records, *)
(* and while it holds N the read loop reads no further record from the     *)
(* stream.                                                                 *)
(***************************************************************************)
\* the records read so far when the reader stands at position p
RecordsReadAt(p) ==
    Cardinality({i \in BodyStart..(p - 1) : stream[i] = entryDelimiter})

RECURSIVE SumProduced(_)
SumProduced(i) == IF i < 0 THEN 0 ELSE produced[i] + SumProduced(i - 1)

\* the records the workers have taken off the queue
Dequeued ==
    Cardinality({w \in 1..numDecoders : workers[w].st = "busy"})
        + SumProduced(MaxRecords + 1)

C15_NoReadWhileFull ==
    /\ [](Len(tsvRecordChan) <= numDecoders)
    /\ [][(readerPc # "off" /\ Len(tsvRecordChan) = numDecoders)
             => RecordsReadAt(pos') = RecordsReadAt(pos)]_vars

(***************************************************************************)
(* C15, amended.  The queue never holds more than N records; with N in the *)
(* queue the read loop still reads one further record, keeps it in         *)
(* tsvRecord and then blocks on its send: the records read never exceed    *)
(* the records dequeued by more than N + 1, and a read loop that holds a   *)
(* record while the queue is full does not move.                           *)
(***************************************************************************)
C15_QueueBoundedOneLookahead ==
    /\ Len(tsvRecordChan) <= numDecoders
    /\ readerPc # "off" => RecordsReadAt(pos) - Dequeued <= numDecoders + 1
    /\ (readerPc = "send" /\ Len(tsvRecordChan) = numDecoders) =>
          (~ENABLED ReadLoopSend /\ ~ENABLED ReadLoopRead)

\* the queue is full, one more record is read and the read loop is blocked
C15_Witness ==
    /\ readerPc = "send"
    /\ Len(tsvRecordChan) = numDecoders
    /\ numDecoders = MaxDecoders
    /\ RecordsReadAt(pos) - Dequeued = numDecoders + 1
    /\ ~ENABLED ReadLoopSend

(***************************************************************************)
(* C16.  The decode/merge stage has sent its signal only when the queue is *)
(* closed and an outcome was emitted for every converter the read loop     *)
(* sent; so when StreamDocument has returned nil, the output stream holds  *)
(* all R outcomes.                                                         *)
(***************************************************************************)
C16_SignalAfterAllEmitted ==
    /\ stagePc = "done" =>
          /\ chanClosed >= 1
          /\ buffer = {}
          /\ Len(readDocChan) = Len(enqueued)
          /\ \A i \in 1..Len(enqueued) :
                Cardinality(EmittedAt(enqueued[i].index)) = 1
    /\ retLog = <<NilSignal>> =>
          /\ Len(readDocChan) = NumRecords
          /\ \A i \in 0..(NumRecords - 1) : Cardinality(EmittedAt(i)) = 1

C16_Witness ==
    /\ retLog = <<NilSignal>>
    /\ stagePc = "done"
    /\ ordered
    /\ NumRecords = MaxRecords
    /\ Len(readDocChan) = MaxRecords

(***************************************************************************)
(* C17.  The size tracker of the reader reports the bytes the reader has   *)
(* consumed from the stream.                                               *)
(***************************************************************************)
C17_SizeTracksBytes == sizeTracked = pos - 1

(***************************************************************************)
(* C18.  The read loop writes neither tsvRecord nor numProcessed after     *)
(* StreamDocument has returned to its caller.                              *)
(***************************************************************************)
C18_NoWriteAfterReturn == writesAfter = 0

(***************************************************************************)
(* C19.  The read loop closes the raw-record queue exactly once, before it *)
(* sends its terminal signal, and after the close it only sends that       *)
(* signal: it is never back at a read or at a send on the queue.           *)
(***************************************************************************)
C19_CloseOnceBeforeSignal ==
    /\ [](/\ chanClosed <= 1
          /\ chanClosed = 1 <=> readerPc \in {"signal", "done"}
          /\ SignalsOf("read") # {} => chanClosed = 1)
    /\ [][chanClosed >= 1 => enqueued' = enqueued]_vars

\* closed with records still queued, the signal not sent yet
C19_Witness ==
    /\ chanClosed = 1
    /\ readerPc = "signal"
    /\ Len(tsvRecordChan) = numDecoders
    /\ SignalsOf("read") = {}

(***************************************************************************)
(* C20.  Bytes that no delimiter ends never become a record: everything    *)
(* sent on the queue ends with the delimiter, and an input that ends with  *)
(* an unterminated record at end-of-stream returns nil with one outcome    *)
(* fewer than it has records.                                              *)
(***************************************************************************)
\* the input of StreamDocument ends in bytes that no delimiter follows
HasTail ==
    /\ BodyStart <= Len(stream)
    /\ stream[Len(stream)] # entryDelimiter

\* the records of the input, an unterminated last one included
RecordsWithTail ==
    Len(Split(SubSeq(stream, BodyStart, Len(stream)), entryDelimiter))

C20_UnterminatedTailDropped ==
    /\ \A i \in 1..Len(enqueued) :
          /\ enqueued[i].data # <<>>
          /\ enqueued[i].data[Len(enqueued[i].data)] = entryDelimiter
    /\ Len(enqueued) <= NumRecords
    /\ (HasTail /\ streamEnd = EOF /\ callerPc = "returned") =>
          /\ retLog = <<NilSignal>>
          /\ Len(readDocChan) = NumRecords
          /\ NumRecords = RecordsWithTail - 1

C20_Witness ==
    /\ HasTail
    /\ streamEnd = EOF
    /\ callerPc = "returned"
    /\ retLog = <<NilSignal>>
    /\ NumRecords = 2
    /\ RecordsWithTail = 3
    /\ Len(readDocChan) = 2

====
